---- MODULE Spec2Model ----
(***************************************************************************)
(* CHMI radar data fetcher: the acquisition loop of radar_data_fetching.py *)
(* (listing, download, conversion, rename-publish), the conversions of     *)
(* conversions.py (hdf_to_png, merge1h_to_png) and the list query of       *)
(* backend/endpoints.py.                                                   *)
(*                                                                         *)
(* File names are sequences of one-character strings, so that building a   *)
(* name (with_suffix, f"{score:.3f}") and parsing it back (split,          *)
(* strptime, float) are computed, character by character.                  *)
(***************************************************************************)
EXTENDS Integers, Sequences, FiniteSets, TLC

\* ---------------------------------------------------------------- bounds

\* Source files the remote mirror publishes per product.
NumFiles == 1
\* Source files in play in one run of the model: the mirror lists a name
\* new to the run only while fewer than this many are known locally.
MaxActive == 2
\* Pixels of a raw grid (height * width, flattened row by row).
GridSize == 2
\* Largest pixel count of a grid whose rain score is put in a file name.
MaxPixels == 16
\* Files of a listed output directory.
MaxDir == 3
\* Steps of the wall clock per second.
Resolution == 2
\* Largest polling interval (--check-every), in seconds.
MaxInterval == 3
\* Horizon of the wall clock, in seconds.
MaxNow == 8
\* Longest pass of the loop over the products, in steps of the clock.
MaxWork == 4

\* ------------------------------------------------------------ characters

Digits == <<"0", "1", "2", "3", "4", "5", "6", "7", "8", "9">>

DigitChar(d) == Digits[d + 1]

\* str.isdigit on one character
IsDigitChar(c) == \E d \in 0..9 : Digits[d + 1] = c

DigitVal(c) == CHOOSE d \in 0..9 : Digits[d + 1] = c

\* str.isdigit: non-empty and all characters digits
isdigit(s) == Len(s) > 0 /\ \A i \in 1..Len(s) : IsDigitChar(s[i])

\* int() of a string of digits
RECURSIVE IntOf(_)
IntOf(s) ==
  IF Len(s) = 0 THEN 0
  ELSE 10 * IntOf(SubSeq(s, 1, Len(s) - 1)) + DigitVal(s[Len(s)])

\* zero-padded decimal of n on w characters (%0wd)
RECURSIVE Pad(_, _)
Pad(n, w) ==
  IF w = 0 THEN <<>> ELSE Pad(n \div 10, w - 1) \o <<DigitChar(n % 10)>>

\* str.split(sep) for a one-character separator
RECURSIVE split(_, _)
split(s, sep) ==
  IF \E i \in 1..Len(s) : s[i] = sep
  THEN LET i == CHOOSE k \in 1..Len(s) :
                  s[k] = sep /\ \A j \in 1..(k - 1) : s[j] # sep
       IN  <<SubSeq(s, 1, i - 1)>> \o split(SubSeq(s, i + 1, Len(s)), sep)
  ELSE <<s>>

\* code points of the characters that occur in an isoformat() string
Ord(c) ==
  IF IsDigitChar(c) THEN 48 + DigitVal(c)
  ELSE IF c = "+" THEN 43
  ELSE IF c = "-" THEN 45
  ELSE IF c = ":" THEN 58
  ELSE 84 \* "T"

\* Python's str < str
RECURSIVE StrLess(_, _)
StrLess(a, b) ==
  IF Len(b) = 0 THEN FALSE
  ELSE IF Len(a) = 0 THEN TRUE
  ELSE IF a[1] # b[1] THEN Ord(a[1]) < Ord(b[1])
  ELSE StrLess(Tail(a), Tail(b))

\* -------------------------------------------------------------- pathlib

\* PurePath.suffix: from the last dot, when it is neither first nor last
SuffixStart(name) ==
  LET dots == {i \in 1..Len(name) : name[i] = "."}
      last == IF dots = {} THEN 0
              ELSE CHOOSE i \in dots : \A j \in dots : j <= i
  IN  IF 1 < last /\ last < Len(name) THEN last ELSE 0

\* PurePath.with_suffix(suffix).name
with_suffix(name, suffix) ==
  IF SuffixStart(name) = 0 THEN name \o suffix
  ELSE SubSeq(name, 1, SuffixStart(name) - 1) \o suffix

DotHdf == <<".", "h", "d", "f">>
DotPng == <<".", "p", "n", "g">>

\* ------------------------------------------------ score text and filenames

\* A rain score is the Python float rain_pixels / total_pixels; the model keeps
\* the exact quotient as the pair <<rain_pixels, total_pixels>>.

\* f"{rain_score:.3f}": the score in thousandths, rounded half to even on its
\* exact value (a tie k/n = odd/2000 is a binary fraction for every n that is
\* no multiple of 80, so the float holds the tie exactly).
Millis(rain_pixels, total_pixels) ==
  LET q == (1000 * rain_pixels) \div total_pixels
      r == (1000 * rain_pixels) % total_pixels
  IN  IF 2 * r < total_pixels THEN q
      ELSE IF 2 * r > total_pixels THEN q + 1
      ELSE IF q % 2 = 0 THEN q ELSE q + 1

\* decimal digits of a natural number, no padding
RECURSIVE DecStr(_)
DecStr(n) ==
  IF n < 10 THEN <<DigitChar(n)>> ELSE DecStr(n \div 10) \o <<DigitChar(n % 10)>>

\* the score text with a slip: two decimals
ScoreStr2(rain_score) ==
  LET m == Millis(rain_score[1], rain_score[2]) \div 10
  IN  DecStr(m \div 100) \o <<".">> \o Pad(m % 100, 2)

\* score_str = f"{rain_score:.3f}"
score_str(rain_score) ==
  LET m == Millis(rain_score[1], rain_score[2])
  IN  DecStr(m \div 1000) \o <<".">> \o Pad(m % 1000, 3)

\* temp_output = output_folder / hdf_path.with_suffix(".png").name
temp_output(hdf_name) == with_suffix(hdf_name, DotPng)

\* final_name = hdf_path.with_suffix("").name + f"_{score_str}.png"
final_name(hdf_name, rain_score) ==
  with_suffix(hdf_name, <<>>) \o <<"_">> \o score_str(rain_score) \o DotPng

\* A parsed score: None, or the decimal num/den that float() read.
None == [some |-> FALSE, num |-> 0, den |-> 1]

RECURSIVE Pow10(_)
Pow10(n) == IF n = 0 THEN 1 ELSE 10 * Pow10(n - 1)

\* float(s) on the texts a file name of this archive can hold: digits with at
\* most one dot and at least one digit; anything else raises ValueError (None).
ParseFloat(s) ==
  LET dots == {i \in 1..Len(s) : s[i] = "."}
      ok   == /\ Len(s) > 0
              /\ Cardinality(dots) <= 1
              /\ \A i \in 1..Len(s) : IsDigitChar(s[i]) \/ s[i] = "."
              /\ \E i \in 1..Len(s) : IsDigitChar(s[i])
  IN  IF ~ok THEN None
      ELSE IF dots = {} THEN [some |-> TRUE, num |-> IntOf(s), den |-> 1]
      ELSE LET d    == CHOOSE i \in dots : TRUE
               int  == SubSeq(s, 1, d - 1)
               frac == SubSeq(s, d + 1, Len(s))
           IN  [some |-> TRUE,
                num  |-> IntOf(int) * Pow10(Len(frac)) + IntOf(frac),
                den  |-> Pow10(Len(frac))]

IsLeap(y) == (y % 4 = 0 /\ y % 100 # 0) \/ y % 400 = 0

DaysIn(y, m) ==
  IF m = 2 THEN (IF IsLeap(y) THEN 29 ELSE 28)
  ELSE IF m \in {4, 6, 9, 11} THEN 30 ELSE 31

\* datetime.strptime(tok, "%Y%m%d%H%M%S") on 14 digits: the six fields, and
\* valid = FALSE where strptime raises ValueError.
strptime(tok) ==
  LET Y == IntOf(SubSeq(tok, 1, 4))
      M == IntOf(SubSeq(tok, 5, 6))
      D == IntOf(SubSeq(tok, 7, 8))
      h == IntOf(SubSeq(tok, 9, 10))
      m == IntOf(SubSeq(tok, 11, 12))
      s == IntOf(SubSeq(tok, 13, 14))
  IN  [valid |-> /\ Y >= 1
                 /\ M \in 1..12
                 /\ D >= 1 /\ (M \in 1..12 => D <= DaysIn(Y, M))
                 /\ h <= 23 /\ m <= 59 /\ s <= 59,
       dt    |-> <<Y, M, D, h, m, s>>]

NoDate == <<0, 0, 0, 0, 0, 0>>

\* extract_timestamp_and_score: ok = FALSE where it raises ValueError.
extract_timestamp_and_score(filename) ==
  LET name  == SubSeq(filename, 1, Len(filename) - 4)
      parts == split(name, "_")
      n     == Len(parts)
  IN  IF n >= 2 /\ Len(parts[n - 1]) = 14 /\ isdigit(parts[n - 1])
      THEN LET t == strptime(parts[n - 1])
           IN  IF t.valid
               THEN [ok |-> TRUE, ts |-> t.dt, score |-> ParseFloat(parts[n])]
               ELSE [ok |-> FALSE, ts |-> NoDate, score |-> None]
      ELSE IF n >= 1 /\ Len(parts[n]) = 14 /\ isdigit(parts[n])
      THEN LET t == strptime(parts[n])
           IN  IF t.valid
               THEN [ok |-> TRUE, ts |-> t.dt, score |-> None]
               ELSE [ok |-> FALSE, ts |-> NoDate, score |-> None]
      ELSE [ok |-> FALSE, ts |-> NoDate, score |-> None]

\* datetime <= datetime (both UTC)
RECURSIVE DtLeq(_, _)
DtLeq(a, b) ==
  IF Len(a) = 0 THEN TRUE
  ELSE IF a[1] # b[1] THEN a[1] < b[1]
  ELSE DtLeq(Tail(a), Tail(b))

\* datetime.isoformat() of a UTC datetime without microseconds
isoformat(dt) ==
  Pad(dt[1], 4) \o <<"-">> \o Pad(dt[2], 2) \o <<"-">> \o Pad(dt[3], 2)
    \o <<"T">> \o Pad(dt[4], 2) \o <<":">> \o Pad(dt[5], 2) \o <<":">>
    \o Pad(dt[6], 2) \o <<"+", "0", "0", ":", "0", "0">>

\* ---------------------------------------------------------- conversions

\* A radar frame: the raw grid of /dataset1/data1/data (flattened), the bit
\* width of its stored integer type, and the attributes of /dataset1/data1/what.
\* gain = gnum/den and offset = onum/den are exact; nodata and undetect are
\* sets holding the attribute when the file has it.

\* CHMI legend thresholds in dBZ, lower bounds of the bins
CHMI_DBZ_THRESHOLDS == <<4, 8, 12, 16, 20, 24, 28, 32, 36, 40, 44, 48, 52, 56, 60>>

\* config.CHMI_COLORS as RGB triples: a palette of 15 colours
CHMI_COLORS == [c \in 1..15 |-> <<(c * 16) % 256, (c * 40) % 256, 255 - c>>]

\* PALETTE_RGB[c], 0-based
PALETTE_RGB(c) == CHMI_COLORS[c + 1]

\* config.PRECIP_LEVELS: the strictly increasing boundaries of the
\* precipitation levels, one per palette colour
PRECIP_LEVELS == <<1, 2, 3, 4, 6, 8, 10, 15, 20, 25, 30, 40, 50, 60, 80>>

\* value * den of a raw code under the calibration
Physical(raw, what) == raw * what.gnum + what.onum

\* numpy.ndarray.astype(np.uint8) of an integer
AsUint8(v) == v % 256

\* with a slip: side="left", the number of entries < v
CountLess(table, num, den) ==
  Cardinality({i \in 1..Len(table) : table[i] * den < num})

\* np.searchsorted(table, v, side="right") and np.digitize(v, table): the
\* number of entries <= v, with v given as num/den
CountLeq(table, num, den) ==
  Cardinality({i \in 1..Len(table) : table[i] * den <= num})

\* with a slip: the alpha channel set on every pixel
RgbaOpaque(c) == IF c >= 0 THEN PALETTE_RGB(c) \o <<255>> ELSE <<0, 0, 0, 255>>

\* RGBA pixel of a class: transparent black for -1, the opaque palette colour
\* otherwise
Rgba(c) == IF c >= 0 THEN PALETTE_RGB(c) \o <<255>> ELSE <<0, 0, 0, 0>>

\* np.sum with a slip: class 0 is not counted as rain
RECURSIVE SumGt0(_)
SumGt0(cls) ==
  IF Len(cls) = 0 THEN 0
  ELSE (IF cls[1] > 0 THEN 1 ELSE 0) + SumGt0(Tail(cls))

\* int(np.sum(cls >= 0))
RECURSIVE SumGeq0(_)
SumGeq0(cls) ==
  IF Len(cls) = 0 THEN 0
  ELSE (IF cls[1] >= 0 THEN 1 ELSE 0) + SumGeq0(Tail(cls))

\* cls of hdf_to_png for one pixel; raw_visible_min is {} for None
HdfClass(stored, what, raw_visible_min) ==
  LET raw      == AsUint8(stored)
      nodata   == CHOOSE v \in what.nodata : TRUE
      undetect == CHOOSE v \in what.undetect : TRUE
      invalid  == raw = nodata \/ raw = undetect
      dbz      == Physical(raw, what)
      visible  == IF raw_visible_min = {}
                  THEN ~invalid /\ dbz >= 4 * what.den
                  ELSE ~invalid /\ \A m \in raw_visible_min : raw >= m
      bin      == CountLeq(CHMI_DBZ_THRESHOLDS, dbz, what.den) - 1
  IN  IF visible THEN bin ELSE -1

\* hdf_to_png: the class grid, the returned rain score and the saved pixels
hdf_to_png(frame, raw_visible_min) ==
  LET cls == [i \in 1..Len(frame.data) |->
                HdfClass(frame.data[i], frame.what, raw_visible_min)]
  IN  [cls        |-> cls,
       rain_score |-> <<SumGeq0(cls), Len(cls)>>,
       out        |-> [i \in 1..Len(cls) |-> Rgba(cls[i])]]

\* with a slip: clip=False, values at or above the last boundary map to
\* ncolors
BoundaryNormNoClip(num, den, ncolors) ==
  LET N        == Len(PRECIP_LEVELS)
      vmin     == PRECIP_LEVELS[1]
      vmax     == PRECIP_LEVELS[N]
      regions  == N - 1
      iret     == CountLeq(PRECIP_LEVELS, num, den) - 1
      stretch  == IF ncolors > regions
                  THEN (IF regions = 1
                        THEN (IF iret = 0 THEN (ncolors - 1) \div 2 ELSE iret)
                        ELSE ((ncolors - 1) * iret) \div (regions - 1))
                  ELSE iret
  IN  IF num < vmin * den THEN -1
      ELSE IF num >= vmax * den THEN ncolors
      ELSE stretch

\* BoundaryNorm(PRECIP_LEVELS, ncolors, clip=True)(value), value = num/den
BoundaryNorm(num, den, ncolors) ==
  LET N        == Len(PRECIP_LEVELS)
      vmin     == PRECIP_LEVELS[1]
      vmax     == PRECIP_LEVELS[N]
      regions  == N - 1
      \* np.clip(xx, vmin, vmax)
      xnum     == IF num < vmin * den THEN vmin * den
                  ELSE IF num > vmax * den THEN vmax * den ELSE num
      iret     == CountLeq(PRECIP_LEVELS, xnum, den) - 1
      stretch  == IF ncolors > regions
                  THEN (IF regions = 1
                        THEN (IF iret = 0 THEN (ncolors - 1) \div 2 ELSE iret)
                        ELSE ((ncolors - 1) * iret) \div (regions - 1))
                  ELSE iret
  IN  IF xnum < vmin * den THEN -1
      ELSE IF xnum >= vmax * den THEN ncolors - 1
      ELSE stretch

\* normed of merge1h_to_png for one pixel
Merge1hClass(stored, what) ==
  LET data_physical == Physical(stored, what)
      mask == \/ stored \in (what.nodata \cup what.undetect)
              \/ data_physical < PRECIP_LEVELS[1] * what.den
  IN  IF mask THEN -1
      ELSE BoundaryNorm(data_physical, what.den, Len(CHMI_COLORS))

\* rgba of merge1h_to_png for one pixel, channels in 255ths: zeros, then for
\* each (idx, colour) of enumerate(CHMI_COLORS) from idx on, a pixel with
\* normed == idx gets to_rgb(colour) and alpha 1.0
RECURSIVE PlotRgba(_, _)
PlotRgba(normed, idx) ==
  IF idx >= Len(CHMI_COLORS) THEN <<0, 0, 0, 0>>
  ELSE IF normed = idx THEN CHMI_COLORS[idx + 1] \o <<255>>
  ELSE PlotRgba(normed, idx + 1)

\* merge1h_to_png: the class grid, the returned rain score and the pixels
merge1h_to_png(frame) ==
  LET normed == [i \in 1..Len(frame.data) |->
                   Merge1hClass(frame.data[i], frame.what)]
  IN  [cls        |-> normed,
       rain_score |-> <<SumGeq0(normed), Len(normed)>>,
       out        |-> [i \in 1..Len(normed) |-> PlotRgba(normed[i], 0)]]

\* raw codes of the grids: below, on and above the legend's bounds, the usual
\* 8-bit nodata code, and the 16-bit nodata code
Pixels8  == {0, 72, 80, 255}
Pixels16 == Pixels8 \cup {65535}

Whats ==
  {[gnum |-> 1, onum |-> -64, den |-> 2, nodata |-> {nd}, undetect |-> {0}] :
      nd \in {255, 65535}}
  \cup {[gnum |-> 1, onum |-> 0, den |-> 1, nodata |-> {nd}, undetect |-> {}] :
      nd \in {255, 65535}}
  \cup {[gnum |-> 1, onum |-> 0, den |-> 1, nodata |-> {}, undetect |-> {}]}

Frames ==
  {[data |-> d, bits |-> 8, what |-> w] :
      d \in [1..GridSize -> Pixels8], w \in Whats}
  \cup {[data |-> d, bits |-> 16, what |-> w] :
      d \in [1..GridSize -> Pixels16], w \in Whats}

\* the frames the mirror serves: grids of one raw code throughout
ServedFrames == {f \in Frames : \A i \in 1..GridSize : f.data[i] = f.data[1]}

\* what["nodata"] and what["undetect"] of hdf_to_png raise KeyError when the
\* attribute is missing
HdfReadable(frame) == frame.what.nodata # {} /\ frame.what.undetect # {}

\* ------------------------------------------------------------ the state

VARIABLES
  \* acquisition loop (radar_data_fetching.main)
  pc,               \* position of the loop
  prod,             \* index of the FOLDER_MAPPINGS entry being processed
  links,            \* the listed file names still to visit
  file_name,        \* loop variable of "for file_url in links"
  downloaded_files, \* SeenSet per product
  raw,              \* the raw-download directories: name -> content
  png,              \* the converted-output directories: name -> content
  rain_score,       \* rain score of the conversion in progress
  event,            \* what the last step logged
  alert,            \* outcome of notify_discord in the last step, if called
  failed,           \* <<product, name>> whose last download_file call raised
  conv_failed,      \* <<product, name>> whose conversion raised
  downloads,        \* download_file calls that returned True per <<product, name>>
  \* one conversion (conversions.py)
  frame, conv_fn, visible_min, conv,
  \* one generated name parsed back
  src_name, src_score, built, parsed, name_pc,
  \* one list query (backend/endpoints.list_files)
  directory, start_str, end_str, results, answered,
  \* the wall clock of the loop (sleep_until_next_interval)
  now,              \* time.time(), in steps of the clock
  check_every,      \* the polling interval, in seconds
  next_time,        \* next_time of the last call
  sleep_duration,   \* sleep_duration of the last call
  tick_time,        \* the time the last sleep ended, -1 before the first
  sleep_pc          \* "run" or "sleeping"

loopVars == <<pc, prod, links, file_name, downloaded_files, raw, png,
              rain_score, event, alert, failed, conv_failed,
              downloads>>
convVars == <<frame, conv_fn, visible_min, conv>>
nameVars == <<src_name, src_score, built, parsed, name_pc>>
listVars == <<directory, start_str, end_str, results, answered>>
sleepVars == <<now, check_every, next_time, sleep_duration, tick_time,
               sleep_pc>>
vars == <<loopVars, convVars, nameVars, listVars, sleepVars>>

\* ------------------------------------------------ products and file names

\* local folder names of FOLDER_MAPPINGS, in its order
Products == <<"pseudocappi2km", "maxz", "merge1h">>

\* leading segments of a product's source file names
Prefix(p) ==
  IF Products[p] = "maxz" THEN <<"T", "_", "Z">>
  ELSE IF Products[p] = "merge1h" THEN <<"T", "_", "M">>
  ELSE <<"T", "_", "C">>

\* the i-th capture time, YYYYMMDDHHMMSS: 2024-01-01 12:00 plus i minutes
Stamp(i) ==
  <<"2", "0", "2", "4", "0", "1", "0", "1", "1", "2">> \o Pad(i, 2) \o <<"0", "0">>

HdfName(p, i) == Prefix(p) \o <<"_">> \o Stamp(i) \o DotHdf

\* what the mirror can list for a product, oldest first
RemoteFiles(p) == [i \in 1..NumFiles |-> HdfName(p, i)]

AllFiles == {<<p, HdfName(p, i)>> : p \in 1..Len(Products), i \in 1..NumFiles}

\* the entries of a sequence at the indices in S, in order
RECURSIVE Pick(_, _)
Pick(seq, S) ==
  IF Len(seq) = 0 THEN <<>>
  ELSE Pick(SubSeq(seq, 1, Len(seq) - 1), S)
         \o (IF Len(seq) \in S THEN <<seq[Len(seq)]>> ELSE <<>>)

NoScore == <<0, 1>>

\* a directory with no files
EmptyDir == [n \in {} |-> "complete"]

\* directory d with file n holding content c
PutFile(d, n, c) == [m \in DOMAIN d \cup {n} |-> IF m = n THEN c ELSE d[m]]

\* directory d without file n
DelFile(d, n) == [m \in DOMAIN d \ {n} |-> d[m]]

\* ------------------------------------------------------ acquisition loop

Idle == UNCHANGED <<convVars, nameVars, listVars, sleepVars>>

Cur == <<prod, file_name>>

\* local_path.exists() with a slip: the file is never found
ExistsNever(p, n) == FALSE

\* local_path.exists()
exists(p, n) == n \in DOMAIN raw[p]

\* with a slip: downloaded_files starts empty
SeedSeenEmpty == [p \in 1..Len(Products) |-> {}]

\* downloaded_files = {url: {f.name for f in folder.iterdir() if f.is_file()}}
SeedSeen == [p \in 1..Len(Products) |-> DOMAIN raw[p]]

\* the source files this run has touched
Active == {f \in AllFiles : f[2] \in DOMAIN raw[f[1]]} \cup failed

\* notify_discord(message): the message is posted to the webhook, or the post
\* raises and the failure is only logged
notify_discord == alert' \in {"sent", "only_logged"}

\* one line of a listing page: whether it holds ".hdf", whether it holds
\* 'href="', and the text between its first two double quotes
EntryLine(name, form) ==
  [hdf |-> TRUE, href |-> form = "href", quoted |-> name]

\* the listing page of a product for the listed entries S: one line per file,
\* written as <a href="name"> or in a form without href=" throughout
Page(p, S, form) ==
  LET names == Pick(RemoteFiles(p), S)
  IN  [i \in 1..Len(names) |-> EntryLine(names[i], form)]

\* [folder_url + line.split('"')[1] for line in response.text.splitlines()
\*  if ".hdf" in line and 'href="' in line]
RECURSIVE ScanLinks(_)
ScanLinks(page) ==
  IF page = <<>> THEN <<>>
  ELSE (IF Head(page).hdf /\ Head(page).href
        THEN <<Head(page).quoted>> ELSE <<>>) \o ScanLinks(Tail(page))

\* get_file_links with a slip: a failure of the sink escapes the handler and
\* the loop with it
GetFileLinksSinkEscapes ==
  /\ pc = "list"
  /\ \/ /\ \E S \in SUBSET (1..NumFiles), form \in {"href", "other"} :
             LET page == Page(prod, S, form)
             IN  /\ Cardinality(Active \cup
                                  {<<prod, HdfName(prod, i)>> : i \in S})
                      <= MaxActive
                 /\ links' = ScanLinks(page)
                 /\ event' = IF page # <<>> /\ ScanLinks(page) = <<>>
                             THEN "unparsable" ELSE "listed"
        /\ alert' = "none"
        /\ pc' = "file"
     \/ /\ links' = <<>>
        /\ event' = "fetch_failed"
        /\ notify_discord
        /\ pc' = IF alert' = "only_logged" THEN "fatal" ELSE "file"
  /\ UNCHANGED <<prod, file_name, downloaded_files, raw, png, rain_score,
                 failed, conv_failed, downloads>>
  /\ Idle

\* links = get_file_links(folder_url): the links scanned from the page, or []
\* when the request raises (logged and sent to the alerting sink). A page
\* that lists files in a form the scan does not match raises nothing.
get_file_links ==
  /\ pc = "list"
  /\ \/ /\ \E S \in SUBSET (1..NumFiles), form \in {"href", "other"} :
             LET page == Page(prod, S, form)
             IN  /\ Cardinality(Active \cup
                                  {<<prod, HdfName(prod, i)>> : i \in S})
                      <= MaxActive
                 /\ links' = ScanLinks(page)
                 /\ event' = IF page # <<>> /\ ScanLinks(page) = <<>>
                             THEN "unparsable" ELSE "listed"
        /\ alert' = "none"
     \/ /\ links' = <<>>
        /\ event' = "fetch_failed"
        /\ notify_discord
  /\ pc' = "file"
  /\ UNCHANGED <<prod, file_name, downloaded_files, raw, png, rain_score,
                 failed, conv_failed, downloads>>
  /\ Idle

\* for file_url in links: a name already in downloaded_files is passed over
SkipSeen ==
  /\ pc = "file" /\ links # <<>>
  /\ Head(links) \in downloaded_files[prod]
  /\ file_name' = Head(links)
  /\ links' = Tail(links)
  /\ event' = "seen"
  /\ alert' = "none"
  /\ UNCHANGED <<pc, prod, downloaded_files, raw, png, rain_score, failed, conv_failed, downloads>>
  /\ Idle

\* download_file: the local path exists, return False
download_file_exists ==
  /\ pc = "file" /\ links # <<>>
  /\ Head(links) \notin downloaded_files[prod]
  /\ exists(prod, Head(links))
  /\ file_name' = Head(links)
  /\ links' = Tail(links)
  /\ event' = "exists"
  /\ alert' = "none"
  /\ UNCHANGED <<pc, prod, downloaded_files, raw, png, rain_score, failed, conv_failed, downloads>>
  /\ Idle

\* download_file: session.get or raise_for_status raises before the local
\* file is opened; logged, alerted, return False
download_file_raises ==
  /\ pc = "file" /\ links # <<>>
  /\ Head(links) \notin downloaded_files[prod]
  /\ ~exists(prod, Head(links))
  /\ file_name' = Head(links)
  /\ links' = Tail(links)
  /\ failed' = failed \cup {<<prod, Head(links)>>}
  /\ event' = "download_failed"
  /\ notify_discord
  /\ UNCHANGED <<pc, prod, downloaded_files, raw, png, rain_score, conv_failed, downloads>>
  /\ Idle

\* download_file: the response arrived and open(local_path, "wb") created
\* the file; its body is being streamed
download_file_open ==
  /\ pc = "file" /\ links # <<>>
  /\ Head(links) \notin downloaded_files[prod]
  /\ ~exists(prod, Head(links))
  /\ file_name' = Head(links)
  /\ raw' = [raw EXCEPT ![prod] = PutFile(@, Head(links), "partial")]
  /\ pc' = "stream"
  /\ event' = "downloading"
  /\ alert' = "none"
  /\ UNCHANGED <<prod, links, downloaded_files, png, rain_score, failed, conv_failed, downloads>>
  /\ Idle

\* stream_raises with a slip: the failed name enters downloaded_files
StreamRaisesMarksSeen ==
  /\ pc = "stream"
  /\ links' = Tail(links)
  /\ failed' = failed \cup {Cur}
  /\ downloaded_files' = [downloaded_files EXCEPT ![prod] = @ \cup {file_name}]
  /\ event' = "download_failed"
  /\ notify_discord
  /\ pc' = "file"
  /\ UNCHANGED <<prod, file_name, raw, png, rain_score, conv_failed, downloads>>
  /\ Idle

\* stream_raises with a slip: the exception escapes download_file and the
\* loop with it
StreamRaisesEscapes ==
  /\ pc = "stream"
  /\ links' = Tail(links)
  /\ failed' = failed \cup {Cur}
  /\ event' = "download_failed"
  /\ notify_discord
  /\ pc' = "fatal"
  /\ UNCHANGED <<prod, file_name, downloaded_files, raw, png, rain_score, conv_failed, downloads>>
  /\ Idle

\* download_file: iter_content or f.write raises while the body is streamed;
\* the file written so far stays, logged, alerted, return False
stream_raises ==
  /\ pc = "stream"
  /\ links' = Tail(links)
  /\ failed' = failed \cup {Cur}
  /\ event' = "download_failed"
  /\ notify_discord
  /\ pc' = "file"
  /\ UNCHANGED <<prod, file_name, downloaded_files, raw, png, rain_score, conv_failed, downloads>>
  /\ Idle

\* stream_done with a slip: the name does not enter downloaded_files
StreamDoneNoAdd ==
  /\ pc = "stream"
  /\ raw' = [raw EXCEPT ![prod] = PutFile(@, file_name, "complete")]
  /\ failed' = failed \ {Cur}
  /\ downloads' = [downloads EXCEPT ![Cur] = @ + 1]
  /\ event' = "downloaded"
  /\ alert' = "none"
  /\ pc' = "convert"
  /\ UNCHANGED <<prod, links, file_name, downloaded_files, png, rain_score,
                 conv_failed>>
  /\ Idle

\* download_file returns True: the body is on disk; main adds the name to
\* downloaded_files and goes on to the conversion
stream_done ==
  /\ pc = "stream"
  /\ raw' = [raw EXCEPT ![prod] = PutFile(@, file_name, "complete")]
  /\ downloaded_files' = [downloaded_files EXCEPT ![prod] = @ \cup {file_name}]
  /\ failed' = failed \ {Cur}
  /\ downloads' = [downloads EXCEPT ![Cur] = @ + 1]
  /\ event' = "downloaded"
  /\ alert' = "none"
  /\ pc' = "convert"
  /\ UNCHANGED <<prod, links, file_name, png, rain_score, conv_failed>>
  /\ Idle

\* Image.save / plt.savefig with a slip: the rename does not wait for the
\* writer to finish
SaveBeginsRenamedEarly(score) ==
  /\ png' = [png EXCEPT ![prod] = PutFile(@, temp_output(file_name), "partial")]
  /\ rain_score' = score
  /\ pc' = "rename"
  /\ event' = "converting"
  /\ alert' = "none"

\* Image.save(png_path) / plt.savefig(output_path): the raster starts to be
\* written under the temporary name, the rain score being known
SaveBegins(score) ==
  /\ png' = [png EXCEPT ![prod] = PutFile(@, temp_output(file_name), "partial")]
  /\ rain_score' = score
  /\ pc' = "emit"
  /\ event' = "converting"
  /\ alert' = "none"

\* convert_cappi_to_png up to the opening of the temporary output
convert_cappi_to_png ==
  /\ pc = "convert" /\ Products[prod] = "pseudocappi2km"
  /\ \E f \in ServedFrames :
       /\ HdfReadable(f)
       /\ SaveBegins(hdf_to_png(f, {78}).rain_score)
  /\ UNCHANGED <<prod, links, file_name, downloaded_files, raw, failed, conv_failed, downloads>>
  /\ Idle

\* convert_maxz_to_png up to the opening of the temporary output
convert_maxz_to_png ==
  /\ pc = "convert" /\ Products[prod] = "maxz"
  /\ \E f \in ServedFrames :
       /\ HdfReadable(f)
       /\ SaveBegins(hdf_to_png(f, {}).rain_score)
  /\ UNCHANGED <<prod, links, file_name, downloaded_files, raw, failed, conv_failed, downloads>>
  /\ Idle

\* convert_merge1h_to_png up to the opening of the temporary output
convert_merge1h_to_png ==
  /\ pc = "convert" /\ Products[prod] = "merge1h"
  /\ \E f \in ServedFrames : SaveBegins(merge1h_to_png(f).rain_score)
  /\ UNCHANGED <<prod, links, file_name, downloaded_files, raw, failed, conv_failed, downloads>>
  /\ Idle

\* convert_raises with a slip: the handler removes the raw file
ConvertRaisesRemovesRaw ==
  /\ pc \in {"convert", "emit", "rename"}
  /\ conv_failed' = conv_failed \cup {Cur}
  /\ raw' = [raw EXCEPT ![prod] = DelFile(@, file_name)]
  /\ links' = Tail(links)
  /\ rain_score' = NoScore
  /\ event' = "convert_failed"
  /\ notify_discord
  /\ pc' = "file"
  /\ UNCHANGED <<prod, file_name, downloaded_files, png, failed, downloads>>
  /\ Idle

\* except Exception in main: the conversion raised (reading the container,
\* classifying, writing the raster, or the rename); whatever was written
\* under the temporary name stays; logged, alerted, next file
convert_raises ==
  /\ pc \in {"convert", "emit", "rename"}
  /\ conv_failed' = conv_failed \cup {Cur}
  /\ links' = Tail(links)
  /\ rain_score' = NoScore
  /\ event' = "convert_failed"
  /\ notify_discord
  /\ pc' = "file"
  /\ UNCHANGED <<prod, file_name, downloaded_files, raw, png, failed, downloads>>
  /\ Idle

\* the writer has written the whole raster and closed the temporary file
save_done ==
  /\ pc = "emit"
  /\ png' = [png EXCEPT ![prod] = PutFile(@, temp_output(file_name), "complete")]
  /\ pc' = "rename"
  /\ UNCHANGED <<prod, links, file_name, downloaded_files, raw, rain_score,
                 event, alert, failed, conv_failed, downloads>>
  /\ Idle

\* temp_output.rename(final_path): the temporary file takes the final name,
\* replacing a file of that name
rename ==
  /\ pc = "rename"
  /\ LET temp  == temp_output(file_name)
         final == final_name(file_name, rain_score)
     IN  png' = [png EXCEPT ![prod] =
                   PutFile(DelFile(@, temp), final, png[prod][temp])]
  /\ links' = Tail(links)
  /\ rain_score' = NoScore
  /\ event' = "published"
  /\ alert' = "none"
  /\ pc' = "file"
  /\ UNCHANGED <<prod, file_name, downloaded_files, raw, failed, conv_failed, downloads>>
  /\ Idle

\* the for loop over links is exhausted: the next entry of FOLDER_MAPPINGS
\* is announced ("Checking: ..."), or after the last one the sleep
\* ("Sleeping ..."); file_name is not read again before it is assigned
next_product ==
  /\ pc = "file" /\ links = <<>>
  /\ IF prod < Len(Products)
     THEN prod' = prod + 1 /\ pc' = "list" /\ event' = "checking"
     ELSE prod' = prod /\ pc' = "sleep" /\ event' = "sleeping"
  /\ alert' = "none"
  /\ file_name' = <<>>
  /\ UNCHANGED <<links, downloaded_files, raw, png, rain_score,
                 failed, conv_failed, downloads>>
  /\ Idle

\* time.sleep(sleep_duration) of sleep_until_next_interval(check_every)
\* returns, then the next pass of while True
sleep_until_next_interval ==
  /\ pc = "sleep"
  /\ prod' = 1
  /\ pc' = "list"
  /\ event' = "checking"
  /\ alert' = "none"
  /\ UNCHANGED <<links, file_name, downloaded_files, raw, png, rain_score,
                 failed, conv_failed, downloads>>
  /\ Idle

\* The process is terminated at any point and started again: main() seeds
\* downloaded_files from the raw-download directories; the files stay as the
\* terminated process left them.
Restart ==
  /\ downloaded_files' = SeedSeen
  /\ pc' = "list"
  /\ prod' = 1
  /\ links' = <<>>
  /\ file_name' = <<>>
  /\ rain_score' = NoScore
  /\ failed' = {}
  /\ event' = "started"
  /\ alert' = "none"
  /\ UNCHANGED <<raw, png, conv_failed, downloads>>
  /\ Idle

\* no conversion result yet
NoConv == [cls |-> <<>>, rain_score |-> NoScore, out |-> <<>>]

\* no name parsed yet
NoParse == [ok |-> FALSE, ts |-> NoDate, score |-> None]

NoFrame == [data |-> <<>>, bits |-> 8,
            what |-> [gnum |-> 1, onum |-> 0, den |-> 1,
                      nodata |-> {}, undetect |-> {}]]

IdleConv ==
  frame = NoFrame /\ conv_fn = "none" /\ visible_min = {} /\ conv = NoConv
IdleName == /\ src_name = <<>> /\ src_score = NoScore /\ built = <<>>
            /\ parsed = NoParse /\ name_pc = "input"
IdleList == /\ directory = {} /\ start_str = <<>> /\ end_str = <<>>
            /\ results = <<>> /\ answered = FALSE

IdleSleep ==
  /\ now = 0 /\ check_every = 1 /\ next_time = 0 /\ sleep_duration = 0
  /\ tick_time = -1 /\ sleep_pc = "run"

IdleLoop ==
  /\ pc = "list"
  /\ prod = 1
  /\ links = <<>>
  /\ file_name = <<>>
  /\ raw = [p \in 1..Len(Products) |-> EmptyDir]
  /\ png = [p \in 1..Len(Products) |-> EmptyDir]
  /\ downloaded_files = [p \in 1..Len(Products) |-> {}]
  /\ rain_score = NoScore
  /\ event = "started"
  /\ alert = "none"
  /\ failed = {}
  /\ conv_failed = {}
  /\ downloads = [f \in AllFiles |-> 0]

\* main() up to "while True" on empty download and output directories
Init ==
  /\ IdleLoop
  /\ IdleConv /\ IdleName /\ IdleList /\ IdleSleep

Next ==
  \/ get_file_links
  \/ SkipSeen
  \/ download_file_exists
  \/ download_file_raises
  \/ download_file_open
  \/ stream_raises
  \/ stream_done
  \/ convert_cappi_to_png
  \/ convert_maxz_to_png
  \/ convert_merge1h_to_png
  \/ convert_raises
  \/ save_done
  \/ rename
  \/ next_product
  \/ sleep_until_next_interval
  \/ Restart

Spec == Init /\ [][Next]_vars

\* the steps of one process that is not terminated
NextRun ==
  \/ get_file_links
  \/ SkipSeen
  \/ download_file_exists
  \/ download_file_raises
  \/ download_file_open
  \/ stream_raises
  \/ stream_done
  \/ convert_cappi_to_png
  \/ convert_maxz_to_png
  \/ convert_merge1h_to_png
  \/ convert_raises
  \/ save_done
  \/ rename
  \/ next_product
  \/ sleep_until_next_interval

\* One process running on: every call of the loop returns or raises (the
\* requests carry timeouts, time.sleep returns), so the single thread always
\* takes its next step.
SpecLive == Init /\ [][NextRun]_vars /\ WF_vars(NextRun)

\* ------------------------------------------------------------ list query

\* directory.glob("*.png")
MatchesPng(n) == Len(n) >= 4 /\ SubSeq(n, Len(n) - 3, Len(n)) = DotPng

\* list_files with a slip: the end of the range is exclusive
SelectedEndOpen(n, start, end) ==
  /\ MatchesPng(n)
  /\ extract_timestamp_and_score(n).ok
  /\ LET ts == extract_timestamp_and_score(n).ts
     IN  DtLeq(start, ts) /\ DtLeq(ts, end) /\ ts # end

\* list_files: the file is globbed, its name parses, and
\* start_dt <= ts <= end_dt
Selected(n, start, end) ==
  /\ MatchesPng(n)
  /\ extract_timestamp_and_score(n).ok
  /\ LET ts == extract_timestamp_and_score(n).ts
     IN  DtLeq(start, ts) /\ DtLeq(ts, end)

\* list_files: the item appended for a selected file; rain_score.some is
\* FALSE where the item has no "rain_score" key
Item(n) ==
  [timestamp  |-> isoformat(extract_timestamp_and_score(n).ts),
   url        |-> n,
   rain_score |-> extract_timestamp_and_score(n).score]

\* the names list_files returns entries for
Returned(dir, start, end) == {n \in dir : Selected(n, start, end)}

\* results.sort(key=lambda x: x["timestamp"]): list.sort is stable, an item
\* goes behind the items whose key is not greater
RECURSIVE Insert(_, _)
Insert(sorted, x) ==
  IF Len(sorted) = 0 THEN <<x>>
  ELSE IF StrLess(x.timestamp, sorted[Len(sorted)].timestamp)
  THEN Insert(SubSeq(sorted, 1, Len(sorted) - 1), x) \o <<sorted[Len(sorted)]>>
  ELSE sorted \o <<x>>

RECURSIVE Sort(_)
Sort(items) ==
  IF Len(items) = 0 THEN <<>>
  ELSE Insert(Sort(SubSeq(items, 1, Len(items) - 1)), items[Len(items)])

\* the items of the selected files, in the order glob yields the files
RECURSIVE Items(_, _, _)
Items(order, start, end) ==
  IF Len(order) = 0 THEN <<>>
  ELSE (IF Selected(order[1], start, end) THEN <<Item(order[1])>> ELSE <<>>)
         \o Items(Tail(order), start, end)

\* list_files(datatype) for the files of the directory in glob order
list_files(order, start, end) == Sort(Items(order, start, end))

\* ------------------------------------------- properties of the loop (Spec)

\* the step is the start of a new process
RestartStep == event' = "started"

\* the step sends the GET of download_file for the file at the head of links
GetIssued ==
  /\ pc = "file" /\ links # <<>>
  /\ \/ pc' = "stream"
     \/ pc' = "file" /\ links' = Tail(links) /\ event' = "download_failed"

\* the loop is about to visit listed file f
Visiting(f) == pc = "file" /\ links # <<>> /\ prod = f[1] /\ Head(links) = f[2]

\* the final name's shape: ..._<d.ddd>.png
ScoreNamed(n) ==
  /\ MatchesPng(n)
  /\ Len(n) >= 10
  /\ n[Len(n) - 9] = "_"
  /\ IsDigitChar(n[Len(n) - 8])
  /\ n[Len(n) - 7] = "."
  /\ \A i \in 4..6 : IsDigitChar(n[Len(n) - i])

\* the range of capture times of every source file
AllFrom == strptime(Stamp(0)).dt
AllTo   == strptime(Stamp(NumFiles)).dt

\* C1: a file whose download failed is not in the SeenSet, and the loop sends
\* its GET again whenever it visits the file while it is listed.
C1_FailedDownloadRetried ==
  /\ [](\A f \in failed : f[2] \notin downloaded_files[f[1]])
  /\ [][\A f \in failed : (Visiting(f) /\ ~RestartStep) => GetIssued]_vars

\* C2: every entry the list query returns is for a score-named, completely
\* written artifact, in every state of the output directories.
C2_ListReturnsOnlyPublished ==
  \A p \in 1..Len(Products) :
    \A n \in Returned(DOMAIN png[p], AllFrom, AllTo) :
      Item(n).rain_score.some /\ ScoreNamed(n) /\ png[p][n] = "complete"

\* C3: a file of an output directory whose name carries the score suffix is
\* completely written.
C3_FinalNameIsComplete ==
  \A p \in 1..Len(Products) :
    \A n \in DOMAIN png[p] : ScoreNamed(n) => png[p][n] = "complete"

\* a rename has published a score-named file, and a temporary file of
\* another source is left half written beside published files
C3_Witness ==
  /\ event = "published"
  /\ \E n \in DOMAIN png[prod] : ScoreNamed(n) /\ png[prod][n] = "complete"
  /\ \E q \in 1..Len(Products) : \E m \in DOMAIN png[q] : png[q][m] = "partial"

\* C4: while a file is converted its name is in the SeenSet, and no GET is
\* sent for a file whose conversion has failed.
C4_SeenBeforeConversion ==
  /\ [](pc \in {"convert", "emit", "rename"} => file_name \in downloaded_files[prod])
  /\ [][\A f \in conv_failed : ~(Visiting(f) /\ GetIssued)]_vars

\* the loop has come back to a file whose conversion failed and passed it over
C4_Witness == event = "seen" /\ Cur \in conv_failed

\* C5: visiting a listed file whose name is in the raw-download directory
\* sends no GET and changes neither the SeenSet nor the directory; no file
\* name is downloaded successfully twice.
C5_ExistingFileNotDownloaded ==
  /\ [][(/\ pc = "file" /\ links # <<>>
         /\ Head(links) \in DOMAIN raw[prod]
         /\ ~RestartStep)
        => (/\ ~GetIssued
            /\ downloaded_files' = downloaded_files
            /\ raw' = raw)]_vars
  /\ [](\A f \in AllFiles : downloads[f] <= 1)

\* download_file found the file of a failed download, which is not in the
\* SeenSet, and returned False
C5_Witness ==
  /\ event = "exists"
  /\ file_name \in DOMAIN raw[prod]
  /\ file_name \notin downloaded_files[prod]

\* C6: within a process the SeenSet of every product only grows, and it grows
\* only by the name of the file whose download_file call just returned True.
C6_SeenSetGrowsOnSuccess ==
  [][~RestartStep =>
      \A p \in 1..Len(Products) :
        /\ downloaded_files[p] \subseteq downloaded_files'[p]
        /\ downloaded_files'[p] # downloaded_files[p] =>
             /\ p = prod
             /\ pc = "stream" /\ pc' = "convert"
             /\ downloaded_files'[p] = downloaded_files[p] \cup {file_name}
             /\ raw'[p][file_name] = "complete"
             /\ downloads'[Cur] = downloads[Cur] + 1]_vars

\* a successful download has just added its name
C6_Witness ==
  /\ event = "downloaded"
  /\ file_name \in downloaded_files[prod]
  /\ downloads[Cur] = 1

\* the score-named files of the output directory that stem from source f
ArtifactsOf(f) ==
  {n \in DOMAIN png[f[1]] :
     ScoreNamed(n) /\ SubSeq(n, 1, Len(n) - 10) = with_suffix(f[2], <<>>)}

\* the step enters the conversion of a file
ConversionStarts == pc # "convert" /\ pc' = "convert"

\* C15: a conversion that raises is alerted and the loop goes on to the next
\* listed file of the same product with the directories as they are; the raw
\* file of a failed conversion stays complete on disk, no score-named file is
\* ever published for it, and its conversion is never started again.
C15_FailedConversionIsSkipped ==
  /\ [][(pc \in {"convert", "emit", "rename"} /\ event' = "convert_failed")
        => (/\ alert' \in {"sent", "only_logged"}
            /\ pc' = "file" /\ prod' = prod
            /\ links' = Tail(links)
            /\ raw' = raw /\ png' = png
            /\ Cur \in conv_failed')]_vars
  /\ [](\A f \in conv_failed :
          /\ f[2] \in DOMAIN raw[f[1]] /\ raw[f[1]][f[2]] = "complete"
          /\ ArtifactsOf(f) = {})
  /\ [][\A f \in conv_failed : ~(ConversionStarts /\ Cur' = f)]_vars

\* a conversion has just raised while the raster was being written: the raw
\* file is complete, the temporary file is half written, nothing is published
C15_Witness ==
  /\ event = "convert_failed" /\ pc = "file"
  /\ Cur \in conv_failed
  /\ raw[prod][file_name] = "complete"
  /\ temp_output(file_name) \in DOMAIN png[prod]
  /\ png[prod][temp_output(file_name)] = "partial"
  /\ ArtifactsOf(Cur) = {}

\* the step is a listing call that raised
ListingRaises == pc = "list" /\ event' = "fetch_failed"

\* what C16 asks of a step that is a failed listing
FailedListingIsEmpty ==
  /\ links' = <<>>
  /\ alert' \in {"sent", "only_logged"}
  /\ pc' = "file" /\ prod' = prod
  /\ downloaded_files' = downloaded_files
  /\ raw' = raw /\ png' = png

\* C16 as stated: a listing whose request raises or whose page cannot be
\* parsed gives an empty list, is alerted, and leaves the SeenSet and the
\* directories alone.
C16_UnparsableListingAlerted ==
  [][(pc = "list" /\ event' \in {"fetch_failed", "unparsable"})
     => FailedListingIsEmpty]_vars

\* C16: a listing whose request raises (retries exhausted, timeout, HTTP
\* error) gives an empty list and is alerted, the sink's own failure being
\* only logged; the SeenSet and the directories are unchanged, and the next
\* step of the loop moves to the next product.
C16_FailedListingIsEmpty ==
  /\ [][ListingRaises => FailedListingIsEmpty]_vars
  /\ [][(pc = "file" /\ event = "fetch_failed" /\ ~RestartStep)
        => (/\ prod' = IF prod < Len(Products) THEN prod + 1 ELSE prod
            /\ pc' = IF prod < Len(Products) THEN "list" ELSE "sleep"
            /\ downloaded_files' = downloaded_files
            /\ raw' = raw /\ png' = png)]_vars
  /\ [](pc \in {"list", "file", "stream", "convert", "emit", "rename",
                "sleep"})

\* the listing of the second product has raised and the sink failed too,
\* after a file of the first product was downloaded: the loop stands before
\* the third product with an empty list
C16_Witness ==
  /\ event = "fetch_failed" /\ alert = "only_logged"
  /\ pc = "file" /\ prod = 2 /\ links = <<>>
  /\ downloaded_files[1] # {}

\* C19: a conversion starts only in the step in which download_file returns
\* True for that file, whose name was not in the SeenSet, and no file is
\* downloaded twice; a process start puts every file of the raw directories,
\* complete or not, in the SeenSet, which only grows, and no GET is sent for
\* a name in the SeenSet; every score-named file stems from a source that is in
\* the SeenSet and in the raw directory.
C19_ConvertedOnceAfterDownload ==
  /\ [][ConversionStarts
        => (/\ pc = "stream" /\ Cur' = Cur
            /\ file_name \notin downloaded_files[prod]
            /\ downloads'[Cur] = downloads[Cur] + 1)]_vars
  /\ [](\A f \in AllFiles : downloads[f] <= 1)
  /\ [][RestartStep
        => \A p \in 1..Len(Products) : DOMAIN raw[p] \subseteq downloaded_files'[p]]_vars
  /\ [][~RestartStep
        => \A p \in 1..Len(Products) :
             downloaded_files[p] \subseteq downloaded_files'[p]]_vars
  /\ [][(GetIssued /\ ~RestartStep)
        => Head(links) \notin downloaded_files[prod]]_vars
  /\ [](\A p \in 1..Len(Products) : \A n \in DOMAIN png[p] :
          ScoreNamed(n) =>
            \E f \in AllFiles :
              /\ f[1] = p /\ n \in ArtifactsOf(f)
              /\ f[2] \in downloaded_files[p]
              /\ f[2] \in DOMAIN raw[p])

\* a raw file left half written by a terminated process is listed again: it
\* is passed over as seen, unconverted
C19_Witness ==
  /\ event = "seen"
  /\ raw[prod][file_name] = "partial"
  /\ ArtifactsOf(Cur) = {}

\* ------------------------------- properties of a process running on (SpecLive)

\* C17: a pass that starts at the first product reaches the sleep step, and
\* the loop reaches it again and again; the products are taken one after the
\* other in the order of FOLDER_MAPPINGS, the sleep step is entered only from
\* the last product with no listed file left, and every listed file is
\* visited in the order listed.
C17_TickReachesSleep ==
  /\ (pc = "list" /\ prod = 1) ~> (pc = "sleep")
  /\ []<>(pc = "sleep")
  /\ [][prod' # prod
        => \/ prod' = prod + 1 /\ pc = "file" /\ links = <<>>
           \/ prod' = 1 /\ pc = "sleep"]_vars
  /\ [][(pc # "sleep" /\ pc' = "sleep")
        => (prod = Len(Products) /\ links = <<>>)]_vars
  /\ [][(pc = "file" /\ links # <<>>) => file_name' = Head(links)]_vars
  /\ [][links' # links
        => (pc = "list" \/ (links # <<>> /\ links' = Tail(links)))]_vars

\* a pass in which a download and a conversion failed has reached the sleep
\* step
C17_Witness ==
  /\ pc = "sleep"
  /\ event = "sleeping"
  /\ failed # {}
  /\ conv_failed # {}

\* ------------------------------------------- the wall clock (SpecSleep)

\* interval_seconds in steps of the clock
Interval == check_every * Resolution

\* with a slip: the next multiple at or after now
NextTimeCeil(t, interval_seconds) ==
  ((t + interval_seconds - 1) \div interval_seconds) * interval_seconds

\* next_time = ((now // interval_seconds) + 1) * interval_seconds
NextTime(t, interval_seconds) ==
  ((t \div interval_seconds) + 1) * interval_seconds

\* sleep_until_next_interval up to time.sleep(sleep_duration)
sleep_begins ==
  /\ sleep_pc = "run"
  /\ NextTime(now, Interval) <= MaxNow * Resolution
  /\ next_time' = NextTime(now, Interval)
  /\ sleep_duration' = next_time' - now
  /\ sleep_pc' = "sleeping"
  /\ UNCHANGED <<now, check_every, tick_time, loopVars, convVars, nameVars,
                 listVars>>

\* time.sleep(sleep_duration) returns
sleep_ends ==
  /\ sleep_pc = "sleeping"
  /\ now' = now + sleep_duration
  /\ tick_time' = now'
  /\ sleep_pc' = "run"
  /\ UNCHANGED <<check_every, next_time, sleep_duration, loopVars, convVars,
                 nameVars, listVars>>

\* the pass over the products between two sleeps takes time
pass_takes_time ==
  /\ sleep_pc = "run"
  /\ \E w \in 1..MaxWork :
       /\ now + w <= MaxNow * Resolution
       /\ now' = now + w
  /\ UNCHANGED <<check_every, next_time, sleep_duration, tick_time, sleep_pc,
                 loopVars, convVars, nameVars, listVars>>

\* the process starts at any time with any interval
InitSleep ==
  /\ now \in 0..(MaxInterval * Resolution)
  /\ check_every \in 1..MaxInterval
  /\ next_time = 0 /\ sleep_duration = 0
  /\ tick_time = -1 /\ sleep_pc = "run"
  /\ IdleLoop /\ IdleConv /\ IdleName /\ IdleList

NextSleep ==
  \/ sleep_begins
  \/ sleep_ends
  \/ pass_takes_time

SpecSleep == InitSleep /\ [][NextSleep]_vars

\* C18: the target of a sleep is the smallest multiple of the interval
\* strictly greater than the time of the call, the duration is in (0, I] and
\* is a whole interval when the call falls on a multiple, and every sleep ends
\* on a multiple of the interval whenever the process started.
C18_SleepsToNextBoundary ==
  /\ sleep_pc = "sleeping" =>
       /\ next_time % Interval = 0
       /\ next_time > now
       /\ \A t \in (now + 1)..(next_time - 1) : t % Interval # 0
       /\ next_time = now + sleep_duration
       /\ 0 < sleep_duration /\ sleep_duration <= Interval
       /\ now % Interval = 0 => sleep_duration = Interval
  /\ tick_time # -1 => tick_time % Interval = 0

\* a second sleep called exactly on the boundary the first one ended on: a
\* whole interval
C18_Witness ==
  /\ sleep_pc = "sleeping"
  /\ tick_time = now /\ now % Interval = 0
  /\ sleep_duration = Interval

\* ------------------------------------- one conversion at a time (SpecConv)

\* hdf_to_png on the frame, raw_visible_min being {} for None (Max Z) or
\* {78} (pseudo-CAPPI)
apply_hdf_to_png(raw_visible_min) ==
  /\ conv_fn = "none"
  /\ HdfReadable(frame)
  /\ conv' = hdf_to_png(frame, raw_visible_min)
  /\ conv_fn' = "hdf_to_png"
  /\ visible_min' = raw_visible_min
  /\ UNCHANGED <<frame, loopVars, nameVars, listVars,
                 sleepVars>>

\* hdf_to_png on a container without nodata or undetect: KeyError
hdf_to_png_raises ==
  /\ conv_fn = "none"
  /\ ~HdfReadable(frame)
  /\ conv_fn' = "KeyError"
  /\ UNCHANGED <<frame, visible_min, conv, loopVars, nameVars, listVars,
                 sleepVars>>

\* merge1h_to_png on the frame
apply_merge1h_to_png ==
  /\ conv_fn = "none"
  /\ conv' = merge1h_to_png(frame)
  /\ conv_fn' = "merge1h_to_png"
  /\ UNCHANGED <<frame, visible_min, loopVars, nameVars, listVars,
                 sleepVars>>

InitConv ==
  /\ frame \in Frames
  /\ conv_fn = "none"
  /\ visible_min = {}
  /\ conv = NoConv
  /\ IdleLoop /\ IdleName /\ IdleList /\ IdleSleep

NextConv ==
  \/ \E m \in {{}, {78}} : apply_hdf_to_png(m)
  \/ hdf_to_png_raises
  \/ apply_merge1h_to_png

SpecConv == InitConv /\ [][NextConv]_vars

Converted == conv_fn \in {"hdf_to_png", "merge1h_to_png"}

\* C9: for a grid whose every pixel equals the nodata code, of any integer
\* width and any nodata value, the rain score is 0 and every saved pixel is
\* fully transparent.
C9_AllNodataIsTransparent ==
  (/\ Converted
   /\ \A i \in 1..Len(frame.data) : frame.data[i] \in frame.what.nodata)
  => (/\ conv.rain_score[1] = 0
      /\ \A i \in 1..Len(conv.out) : conv.out[i][4] = 0)

\* C10: the rain score is the number of pixels of class >= 0 over the number
\* of pixels of the grid, lies in [0, 1], and every class is -1 or a palette
\* index.
C10_RainScoreIsRainFraction ==
  Converted =>
    /\ Len(conv.cls) = Len(frame.data)
    /\ conv.rain_score =
         <<Cardinality({i \in 1..Len(conv.cls) : conv.cls[i] >= 0}),
           Len(frame.data)>>
    /\ conv.rain_score[2] > 0
    /\ 0 <= conv.rain_score[1] /\ conv.rain_score[1] <= conv.rain_score[2]
    /\ \A i \in 1..Len(conv.cls) : conv.cls[i] \in -1..(Len(CHMI_COLORS) - 1)

\* a grid with a transparent pixel and a pixel of the last bin: a score
\* strictly between 0 and 1
C10_Witness ==
  /\ Converted
  /\ \E i \in 1..Len(conv.cls) : conv.cls[i] = -1
  /\ \E i \in 1..Len(conv.cls) : conv.cls[i] = Len(CHMI_COLORS) - 1
  /\ 0 < conv.rain_score[1] /\ conv.rain_score[1] < conv.rain_score[2]

ShownByHdf(i) ==
  LET code == frame.data[i] % 256
  IN  /\ code \notin (frame.what.nodata \cup frame.what.undetect)
      /\ \A m \in visible_min : code >= m
      /\ visible_min = {} =>
           code * frame.what.gnum + frame.what.onum >= 4 * frame.what.den

\* C12: hdf_to_png gives a shown pixel of dBZ value v the index of the last
\* threshold <= v (threshold[i] <= v < threshold[i+1], the last bin from 60
\* up, a value on a boundary in the bin starting there), and every pixel not
\* shown the class -1.
C12_ThresholdBinIsRightOpen ==
  conv_fn = "hdf_to_png" =>
    \A i \in 1..Len(conv.cls) :
      LET num  == (frame.data[i] % 256) * frame.what.gnum + frame.what.onum
          den  == frame.what.den
          c    == conv.cls[i]
          last == Len(CHMI_DBZ_THRESHOLDS) - 1
      IN  IF ShownByHdf(i)
          THEN /\ c \in -1..last
               /\ c >= 0 => CHMI_DBZ_THRESHOLDS[c + 1] * den <= num
               /\ c < last => num < CHMI_DBZ_THRESHOLDS[c + 2] * den
          ELSE c = -1

\* a pixel of exactly 8.0 dBZ (code 80, gain 0.5, offset -32) in bin 1 next
\* to a pixel that is not shown
C12_Witness ==
  /\ conv_fn = "hdf_to_png"
  /\ frame.what.den = 2
  /\ \E i \in 1..Len(conv.cls) :
       frame.data[i] = 80 /\ ShownByHdf(i) /\ conv.cls[i] = 1
  /\ \E i \in 1..Len(conv.cls) : ~ShownByHdf(i) /\ conv.cls[i] = -1

\* C13: the MaxZ conversion (hdf_to_png without a raw floor) classifies a
\* measured pixel on its raw code, class = (raw - 73) div 8, with a bin
\* outside 0..14 mapped to -1.
C13_MaxzIsRawCodeBin ==
  (conv_fn = "hdf_to_png" /\ visible_min = {}) =>
    \A i \in 1..Len(conv.cls) :
      LET code == frame.data[i] % 256
          bin  == (code - 73) \div 8
      IN  code \notin (frame.what.nodata \cup frame.what.undetect) =>
            conv.cls[i] = IF bin \in 0..(Len(CHMI_COLORS) - 1) THEN bin ELSE -1

\* C14: merge1h_to_png gives class -1 to a pixel whose physical value is
\* below the first level, the last palette index to a measured pixel whose
\* physical value is at or above the last level, and class -1 to a pixel whose
\* raw code is nodata or undetect whatever its physical value.
C14_LevelBinSaturates ==
  conv_fn = "merge1h_to_png" =>
    \A i \in 1..Len(conv.cls) :
      LET N     == Len(PRECIP_LEVELS)
          num   == frame.data[i] * frame.what.gnum + frame.what.onum
          den   == frame.what.den
          coded == frame.data[i] \in
                     (frame.what.nodata \cup frame.what.undetect)
      IN  /\ coded => conv.cls[i] = -1
          /\ num < PRECIP_LEVELS[1] * den => conv.cls[i] = -1
          /\ (~coded /\ num >= PRECIP_LEVELS[N] * den) =>
               /\ conv.cls[i] = N - 1
               /\ conv.cls[i] < Len(CHMI_COLORS)

\* a pixel exactly on the last level in the last bin, next to a pixel whose
\* code is nodata and whose physical value is above the last level
C14_Witness ==
  /\ conv_fn = "merge1h_to_png"
  /\ \E i \in 1..Len(conv.cls) :
       /\ frame.data[i] * frame.what.gnum + frame.what.onum
            = PRECIP_LEVELS[Len(PRECIP_LEVELS)] * frame.what.den
       /\ conv.cls[i] = Len(CHMI_COLORS) - 1
  /\ \E i \in 1..Len(conv.cls) :
       /\ frame.data[i] \in frame.what.nodata
       /\ frame.data[i] * frame.what.gnum + frame.what.onum
            > PRECIP_LEVELS[Len(PRECIP_LEVELS)] * frame.what.den
       /\ conv.cls[i] = -1

\* ------------------------------- one name built and parsed back (SpecName)

\* the 14-digit token YYYYMMDDHHMMSS of a capture time
Token(dt) ==
  Pad(dt[1], 4) \o Pad(dt[2], 2) \o Pad(dt[3], 2) \o Pad(dt[4], 2)
    \o Pad(dt[5], 2) \o Pad(dt[6], 2)

\* capture times, in chronological order
Times == <<
  <<1, 1, 1, 0, 0, 0>>,
  <<2023, 12, 31, 23, 59, 59>>,
  <<2024, 2, 29, 0, 0, 0>>,
  <<2024, 2, 29, 0, 0, 1>>,
  <<2024, 10, 1, 9, 30, 0>>,
  <<9999, 12, 31, 23, 59, 59>> >>

\* stem segments in front of the time token: none, the mirror's, and one
\* that is itself 14 digits
StemPrefixes ==
  { <<>>,
    <<"T", "_", "P", "A", "B", "V", "2", "3", "_", "C", "_">>,
    Token(Times[2]) \o <<"_">> }

SourceName(pre, t) == pre \o Token(Times[t]) \o DotHdf

\* the convert_* functions build the final name of the output
build_name ==
  /\ name_pc = "input"
  /\ built' = final_name(src_name, src_score)
  /\ name_pc' = "built"
  /\ UNCHANGED <<src_name, src_score, parsed, loopVars, convVars, listVars,
                 sleepVars>>

\* the list query parses the name
parse_name ==
  /\ name_pc = "built"
  /\ parsed' = extract_timestamp_and_score(built)
  /\ name_pc' = "parsed"
  /\ UNCHANGED <<src_name, src_score, built, loopVars, convVars, listVars,
                 sleepVars>>

InitName ==
  /\ \E pre \in StemPrefixes : \E t \in 1..Len(Times) :
       src_name = SourceName(pre, t)
  /\ \E n \in 1..MaxPixels : \E k \in 0..n : src_score = <<k, n>>
  /\ built = <<>>
  /\ parsed = NoParse
  /\ name_pc = "input"
  /\ IdleLoop /\ IdleConv /\ IdleList /\ IdleSleep

NextName == build_name \/ parse_name

SpecName == InitName /\ [][NextName]_vars

\* C7: the final name built from a stem ending in the token of T and from a
\* score S in [0, 1] parses back to T and to S rounded to three decimals.
C7_FilenameRoundTrip ==
  name_pc = "parsed" =>
    /\ parsed.ok
    /\ \A pre \in StemPrefixes : \A t \in 1..Len(Times) :
         src_name = SourceName(pre, t) => parsed.ts = Times[t]
    /\ parsed.score.some
    /\ parsed.score.den = 1000
    /\ LET d == parsed.score.num * src_score[2] - 1000 * src_score[1]
       IN  2 * d <= src_score[2] /\ -2 * d <= src_score[2]

\* a score of 1/16 = 0.0625, halfway between two texts, came back as 0.062
\* with its capture time
C7_Witness ==
  /\ name_pc = "parsed"
  /\ parsed.ok
  /\ src_score = <<1, 16>>
  /\ parsed.score.num = 62
  /\ parsed.ts = Times[3]

\* ----------------------------------------------- one list query (SpecList)

\* files an output directory can hold: the capture time of the name (an
\* index of Times, 0 where the name holds none) and whether the name holds
\* a score
DirEntries ==
  LET z == <<"T", "_", "Z", "_">>
  IN  { [name |-> z \o Token(Times[2]) \o <<"_", "0", ".", "2", "5", "0">> \o DotPng,
         t |-> 2, scored |-> TRUE],
        [name |-> z \o Token(Times[3]) \o <<"_", "0", ".", "0", "0", "0">> \o DotPng,
         t |-> 3, scored |-> TRUE],
        [name |-> z \o Token(Times[4]) \o <<"_", "1", ".", "0", "0", "0">> \o DotPng,
         t |-> 4, scored |-> TRUE],
        [name |-> z \o Token(Times[5]) \o <<"_", "0", ".", "5", "0", "0">> \o DotPng,
         t |-> 5, scored |-> TRUE],
        \* old format, of the same time as a new-format file
        [name |-> z \o Token(Times[3]) \o DotPng, t |-> 3, scored |-> FALSE],
        \* new format with a text that is no number
        [name |-> z \o Token(Times[4]) \o <<"_", "x">> \o DotPng,
         t |-> 4, scored |-> FALSE],
        \* the 13th month
        [name |-> z \o <<"2", "0", "2", "4", "1", "3", "0", "1", "0", "0", "0", "0", "0", "0">>
                    \o <<"_", "0", ".", "5", "0", "0">> \o DotPng,
         t |-> 0, scored |-> FALSE],
        \* no time token
        [name |-> <<"l", "e", "g", "e", "n", "d">> \o DotPng,
         t |-> 0, scored |-> FALSE],
        \* not a .png
        [name |-> z \o Token(Times[3]) \o <<"_", "0", ".", "0", "0", "0">> \o DotHdf,
         t |-> 0, scored |-> FALSE] }

EntryOf(n) == CHOOSE e \in DirEntries : e.name = n

\* the query parameter of a time: ISO 8601 with a trailing Z
QueryStr(t) ==
  Pad(Times[t][1], 4) \o <<"-">> \o Pad(Times[t][2], 2) \o <<"-">>
    \o Pad(Times[t][3], 2) \o <<"T">> \o Pad(Times[t][4], 2) \o <<":">>
    \o Pad(Times[t][5], 2) \o <<":">> \o Pad(Times[t][6], 2) \o <<"Z">>

\* the index in Times of a query parameter
TimeOf(str) == CHOOSE t \in 1..Len(Times) : QueryStr(t) = str

\* parse_isoformat_z on YYYY-MM-DDTHH:MM:SS followed by Z (replaced by
\* +00:00) or +00:00: the UTC datetime
parse_isoformat_z(dt_str) ==
  <<IntOf(SubSeq(dt_str, 1, 4)), IntOf(SubSeq(dt_str, 6, 7)),
    IntOf(SubSeq(dt_str, 9, 10)), IntOf(SubSeq(dt_str, 12, 13)),
    IntOf(SubSeq(dt_str, 15, 16)), IntOf(SubSeq(dt_str, 18, 19))>>

\* the orders in which glob can yield the files of a directory
Orders(dir) ==
  {o \in [1..Cardinality(dir) -> dir] :
     \A i, j \in 1..Cardinality(dir) : i # j => o[i] # o[j]}

\* GET /api/<datatype>/list?start=..&end=..
list_files_request ==
  /\ ~answered
  /\ \E order \in Orders(directory) :
       results' = list_files(order, parse_isoformat_z(start_str),
                             parse_isoformat_z(end_str))
  /\ answered' = TRUE
  /\ UNCHANGED <<directory, start_str, end_str, loopVars, convVars, nameVars,
                 sleepVars>>

InitList ==
  /\ \E d \in SUBSET {e.name : e \in DirEntries} :
       Cardinality(d) <= MaxDir /\ directory = d
  /\ \E t \in 1..Len(Times) : start_str = QueryStr(t)
  /\ \E t \in 1..Len(Times) : end_str = QueryStr(t)
  /\ results = <<>>
  /\ answered = FALSE
  /\ IdleLoop /\ IdleConv /\ IdleName /\ IdleSleep

NextList == list_files_request

SpecList == InitList /\ [][NextList]_vars

\* C8: the query returns exactly the files of the directory whose name holds
\* a capture time t with start <= t <= end, each once, in ascending order of
\* time, with a rain score exactly where the name holds one.
C8_ListIsRangeInOrder ==
  answered =>
    LET want == {n \in directory :
                   /\ EntryOf(n).t # 0
                   /\ TimeOf(start_str) <= EntryOf(n).t
                   /\ EntryOf(n).t <= TimeOf(end_str)}
    IN  /\ {results[i].url : i \in 1..Len(results)} = want
        /\ Len(results) = Cardinality(want)
        /\ \A i \in 1..Len(results) :
             /\ results[i].rain_score.some = EntryOf(results[i].url).scored
             /\ results[i].timestamp = isoformat(Times[EntryOf(results[i].url).t])
        /\ \A i, j \in 1..Len(results) :
             i < j => EntryOf(results[i].url).t <= EntryOf(results[j].url).t

\* a query with start = end = T0 on a directory that holds an artifact of
\* time T0 beside others returned that one artifact
C8_Witness ==
  /\ answered
  /\ start_str = end_str
  /\ Len(results) = 1
  /\ Cardinality(directory) > 1

====
